---- MODULE Spec2Model ----
(***************************************************************************)
(* Model of ext/hallon/events.c: the event_producer thread, the two        *)
(* semaphores event_full / event_empty, the libspotify callback side of    *)
(* the protocol comment, the interpreter lock (GVL) that                   *)
(* hn_proc_without_gvl releases around a blocking call, and the consumer   *)
(* that owns event_queue.                                                  *)
(***************************************************************************)
EXTENDS Integers, Sequences, FiniteSets, TLC

\* ---------------------------------------------------------------- bounds
MaxEvents == 2        \* longest run of non-nil handler results
MaxCallbacks == 4     \* most events the callback side tries to deliver

\* ------------------------------------------------------------- constants
Qnil == "nil"
Qtrue == "Qtrue"
EventValues == {"A", "B"}
EventFullInit == 0
EventEmptyInit == 1

VARIABLES
  pc,           \* position of event_producer
  ruby_event,   \* local of event_producer (line 45)
  ret,          \* value returned by event_producer, "none" while running
  event_full,   \* semaphore count, session_data->event_full
  event_empty,  \* semaphore count, session_data->event_empty
  data,         \* session_data->event->data: index of the event filled in
  event_queue,  \* session_data->event_queue (the Sink)
  gvl,          \* set of threads holding the interpreter lock
  cbpc,         \* position of the libspotify callback side
  cbCount,      \* events the callback side has handed over
  cbLimit,      \* events the callback side will try to hand over
  script,       \* the non-nil results the handler yields, in event order
  drained,      \* entries the consumer has removed from event_queue
  produced,     \* history: handler results in invocation order
  dispatches,   \* history: number of handler invocations
  fullPosts, fullWaits, emptyPosts, emptyWaits  \* history: completed calls

vars == <<pc, ruby_event, ret, event_full, event_empty, data, event_queue,
          gvl, cbpc, cbCount, cbLimit, script, drained, produced,
          dispatches, fullPosts, fullWaits, emptyPosts, emptyWaits>>

semVars == <<event_full, event_empty, fullPosts, fullWaits,
             emptyPosts, emptyWaits>>
histVars == <<produced, dispatches>>

\* All sequences over S of length 0..n
RECURSIVE SeqsUpTo(_, _)
SeqsUpTo(S, n) ==
  IF n = 0 THEN {<<>>}
  ELSE LET shorter == SeqsUpTo(S, n - 1)
       IN  shorter \cup {Append(s, x) : s \in shorter, x \in S}

\* ------------------------------------------------------------ primitives
\* hn_sem_wait: blocks until the count is positive, then decrements it
hn_sem_wait_ready(count) == count > 0
hn_sem_wait(count) == count - 1
\* hn_sem_post: increments the count
hn_sem_post(count) == count + 1

\* hn_proc_without_gvl: release the lock, run the call, take the lock again
gvl_free == gvl = {}
gvl_acquire(t) == gvl \cup {t}
gvl_release(t) == gvl \ {t}

\* session_data->event->handler(session_data->event->data)
handler(d) == IF d \in 1..Len(script) THEN script[d] ELSE Qnil

\* ------------------------------------------------------------------ Init
Init ==
  /\ pc = "start"
  /\ ruby_event = Qnil
  /\ ret = "none"
  /\ event_full = EventFullInit
  /\ event_empty = EventEmptyInit
  /\ data = 0
  /\ event_queue = <<>>
  /\ gvl = {"consumer"}
  /\ cbpc = "empty_wait"
  /\ cbCount = 0
  /\ cbLimit \in 0..MaxCallbacks
  /\ script \in SeqsUpTo(EventValues, MaxEvents)
  /\ drained = <<>>
  /\ produced = <<>>
  /\ dispatches = 0
  /\ fullPosts = 0 /\ fullWaits = 0 /\ emptyPosts = 0 /\ emptyWaits = 0

\* -------------------------------------------------------- event_producer
\* the new thread starts running event_producer once it gets the lock
ProducerStart ==
  /\ pc = "start"
  /\ gvl_free
  /\ gvl' = gvl_acquire("producer")
  /\ pc' = "loop"
  /\ UNCHANGED <<ruby_event, ret, data, event_queue, script, drained>>
  /\ UNCHANGED <<semVars, histVars, cbpc, cbCount, cbLimit>>

\* variant: the wait is entered with the lock still held
WaitRelease_KeepLock ==
  /\ pc = "loop"
  /\ pc' = "full_wait"
  /\ UNCHANGED <<ruby_event, ret, data, event_queue, script, drained, gvl>>
  /\ UNCHANGED <<semVars, histVars, cbpc, cbCount, cbLimit>>

\* line 42, hn_proc_without_gvl: give up the lock before blocking
WaitRelease ==
  /\ pc = "loop"
  /\ gvl' = gvl_release("producer")
  /\ pc' = "full_wait"
  /\ UNCHANGED <<ruby_event, ret, data, event_queue, script, drained>>
  /\ UNCHANGED <<semVars, histVars, cbpc, cbCount, cbLimit>>

\* variant: the wait returns without an event having been posted
WaitSem_NoBlock ==
  /\ pc = "full_wait"
  /\ event_full' = hn_sem_wait(event_full)
  /\ fullWaits' = fullWaits + 1
  /\ pc' = "full_woken"
  /\ UNCHANGED <<ruby_event, ret, data, event_queue, script, drained, gvl>>
  /\ UNCHANGED <<event_empty, fullPosts, emptyPosts, emptyWaits>>
  /\ UNCHANGED <<histVars, cbpc, cbCount, cbLimit>>

\* line 42, hn_sem_wait_nogvl(event_full)
WaitSem ==
  /\ pc = "full_wait"
  /\ hn_sem_wait_ready(event_full)
  /\ event_full' = hn_sem_wait(event_full)
  /\ fullWaits' = fullWaits + 1
  /\ pc' = "full_woken"
  /\ UNCHANGED <<ruby_event, ret, data, event_queue, script, drained, gvl>>
  /\ UNCHANGED <<event_empty, fullPosts, emptyPosts, emptyWaits>>
  /\ UNCHANGED <<histVars, cbpc, cbCount, cbLimit>>

\* variant: the producer carries on without waiting for the lock to be free
WaitReacquire_NoLockWait ==
  /\ pc = "full_woken"
  /\ gvl' = gvl_acquire("producer")
  /\ pc' = "dispatch"
  /\ UNCHANGED <<ruby_event, ret, data, event_queue, script, drained>>
  /\ UNCHANGED <<semVars, histVars, cbpc, cbCount, cbLimit>>

\* line 42, hn_proc_without_gvl: take the lock again before returning
WaitReacquire ==
  /\ pc = "full_woken"
  /\ gvl_free
  /\ gvl' = gvl_acquire("producer")
  /\ pc' = "dispatch"
  /\ UNCHANGED <<ruby_event, ret, data, event_queue, script, drained>>
  /\ UNCHANGED <<semVars, histVars, cbpc, cbCount, cbLimit>>

\* line 45, ruby_event = handler(data)
Dispatch ==
  /\ pc = "dispatch"
  /\ ruby_event' = handler(data)
  /\ produced' = Append(produced, handler(data))
  /\ dispatches' = dispatches + 1
  /\ pc' = "check"
  /\ UNCHANGED <<ret, data, event_queue, script, drained, gvl>>
  /\ UNCHANGED <<semVars, cbpc, cbCount, cbLimit>>

\* variant: the nil test is missing, every result is forwarded
CheckNil_NoBreak ==
  /\ pc = "check"
  /\ pc' = "push"
  /\ UNCHANGED <<ruby_event, ret, data, event_queue, script, drained, gvl>>
  /\ UNCHANGED <<semVars, histVars, cbpc, cbCount, cbLimit>>

\* variant: the nil test is inverted, the loop ends on a real event
CheckNil_Inverted ==
  /\ pc = "check"
  /\ pc' = IF ruby_event = Qnil THEN "push" ELSE "return"
  /\ UNCHANGED <<ruby_event, ret, data, event_queue, script, drained, gvl>>
  /\ UNCHANGED <<semVars, histVars, cbpc, cbCount, cbLimit>>

\* variant: event_empty is posted before the result is pushed
CheckNil_PostEarly ==
  /\ pc = "check"
  /\ pc' = IF ruby_event = Qnil THEN "return" ELSE "push"
  /\ event_empty' = IF ruby_event = Qnil THEN event_empty
                     ELSE hn_sem_post(event_empty)
  /\ emptyPosts' = IF ruby_event = Qnil THEN emptyPosts ELSE emptyPosts + 1
  /\ UNCHANGED <<ruby_event, ret, data, event_queue, script, drained, gvl>>
  /\ UNCHANGED <<event_full, fullPosts, fullWaits, emptyWaits>>
  /\ UNCHANGED <<histVars, cbpc, cbCount, cbLimit>>

\* line 48, if (ruby_event == Qnil) break;
CheckNil ==
  /\ pc = "check"
  /\ pc' = IF ruby_event = Qnil THEN "return" ELSE "push"
  /\ UNCHANGED <<ruby_event, ret, data, event_queue, script, drained, gvl>>
  /\ UNCHANGED <<semVars, histVars, cbpc, cbCount, cbLimit>>

\* variant: the result is inserted at the front (unshift instead of push)
Push_Prepend ==
  /\ pc = "push"
  /\ event_queue' = <<ruby_event>> \o event_queue
  /\ pc' = "post"
  /\ UNCHANGED <<ruby_event, ret, data, script, drained, gvl>>
  /\ UNCHANGED <<semVars, histVars, cbpc, cbCount, cbLimit>>

\* variant: the loop starts over after the push, event_empty is not posted
Push_SkipPost ==
  /\ pc = "push"
  /\ event_queue' = Append(event_queue, ruby_event)
  /\ pc' = "loop"
  /\ UNCHANGED <<ruby_event, ret, data, script, drained, gvl>>
  /\ UNCHANGED <<semVars, histVars, cbpc, cbCount, cbLimit>>

\* line 51, rb_funcall3(event_queue, push, 1, &ruby_event)
Push ==
  /\ pc = "push"
  /\ event_queue' = Append(event_queue, ruby_event)
  /\ pc' = "post"
  /\ UNCHANGED <<ruby_event, ret, data, script, drained, gvl>>
  /\ UNCHANGED <<semVars, histVars, cbpc, cbCount, cbLimit>>

\* variant: the post is made with the lock still held
PostRelease_KeepLock ==
  /\ pc = "post"
  /\ pc' = "empty_post"
  /\ UNCHANGED <<ruby_event, ret, data, event_queue, script, drained, gvl>>
  /\ UNCHANGED <<semVars, histVars, cbpc, cbCount, cbLimit>>

\* line 52, hn_proc_without_gvl: give up the lock around the post
PostRelease ==
  /\ pc = "post"
  /\ gvl' = gvl_release("producer")
  /\ pc' = "empty_post"
  /\ UNCHANGED <<ruby_event, ret, data, event_queue, script, drained>>
  /\ UNCHANGED <<semVars, histVars, cbpc, cbCount, cbLimit>>

\* variant: event_empty is never posted
PostSem_NoPost ==
  /\ pc = "empty_post"
  /\ pc' = "empty_posted"
  /\ UNCHANGED <<ruby_event, ret, data, event_queue, script, drained, gvl>>
  /\ UNCHANGED <<semVars, histVars, cbpc, cbCount, cbLimit>>

\* line 52, hn_sem_post_nogvl(event_empty)
PostSem ==
  /\ pc = "empty_post"
  /\ event_empty' = hn_sem_post(event_empty)
  /\ emptyPosts' = emptyPosts + 1
  /\ pc' = "empty_posted"
  /\ UNCHANGED <<ruby_event, ret, data, event_queue, script, drained, gvl>>
  /\ UNCHANGED <<event_full, fullPosts, fullWaits, emptyWaits>>
  /\ UNCHANGED <<histVars, cbpc, cbCount, cbLimit>>

\* line 52-53, hn_proc_without_gvl takes the lock again; while(1) loops
PostReacquire ==
  /\ pc = "empty_posted"
  /\ gvl_free
  /\ gvl' = gvl_acquire("producer")
  /\ pc' = "loop"
  /\ UNCHANGED <<ruby_event, ret, data, event_queue, script, drained>>
  /\ UNCHANGED <<semVars, histVars, cbpc, cbCount, cbLimit>>

\* variant: event_empty is posted once more on the way out
Return_WithPost ==
  /\ pc = "return"
  /\ ret' = Qtrue
  /\ gvl' = gvl_release("producer")
  /\ event_empty' = hn_sem_post(event_empty)
  /\ emptyPosts' = emptyPosts + 1
  /\ pc' = "done"
  /\ UNCHANGED <<ruby_event, data, event_queue, script, drained>>
  /\ UNCHANGED <<event_full, fullPosts, fullWaits, emptyWaits>>
  /\ UNCHANGED <<histVars, cbpc, cbCount, cbLimit>>

\* line 55, return Qtrue; the finished thread gives the lock up
Return ==
  /\ pc = "return"
  /\ ret' = Qtrue
  /\ gvl' = gvl_release("producer")
  /\ pc' = "done"
  /\ UNCHANGED <<ruby_event, data, event_queue, script, drained>>
  /\ UNCHANGED <<semVars, histVars, cbpc, cbCount, cbLimit>>

\* --------------------------------------------------- libspotify_callback
\* variant: the callback side does not wait for event_empty
CallbackWait_NoBlock ==
  /\ cbpc = "empty_wait"
  /\ cbCount < cbLimit
  /\ event_empty' = hn_sem_wait(event_empty)
  /\ emptyWaits' = emptyWaits + 1
  /\ cbpc' = "fill"
  /\ UNCHANGED <<pc, ruby_event, ret, data, event_queue, script, drained, gvl>>
  /\ UNCHANGED <<event_full, fullPosts, fullWaits, emptyPosts>>
  /\ UNCHANGED <<histVars, cbCount, cbLimit>>

\* line 24, event_empty.wait
CallbackWait ==
  /\ cbpc = "empty_wait"
  /\ cbCount < cbLimit
  /\ hn_sem_wait_ready(event_empty)
  /\ event_empty' = hn_sem_wait(event_empty)
  /\ emptyWaits' = emptyWaits + 1
  /\ cbpc' = "fill"
  /\ UNCHANGED <<pc, ruby_event, ret, data, event_queue, script, drained, gvl>>
  /\ UNCHANGED <<event_full, fullPosts, fullWaits, emptyPosts>>
  /\ UNCHANGED <<histVars, cbCount, cbLimit>>

\* line 25, fill work queue
CallbackFill ==
  /\ cbpc = "fill"
  /\ data' = cbCount + 1
  /\ cbpc' = "full_post"
  /\ UNCHANGED <<pc, ruby_event, ret, event_queue, script, drained, gvl>>
  /\ UNCHANGED <<semVars, histVars, cbCount, cbLimit>>

\* variant: the callback side posts event_full twice for one event
CallbackPost_Twice ==
  /\ cbpc = "full_post"
  /\ event_full' = hn_sem_post(hn_sem_post(event_full))
  /\ fullPosts' = fullPosts + 2
  /\ cbCount' = cbCount + 1
  /\ cbpc' = "empty_wait"
  /\ UNCHANGED <<pc, ruby_event, ret, data, event_queue, script, drained, gvl>>
  /\ UNCHANGED <<event_empty, fullWaits, emptyPosts, emptyWaits>>
  /\ UNCHANGED <<histVars, cbLimit>>

\* line 26, event_full.post
CallbackPost ==
  /\ cbpc = "full_post"
  /\ event_full' = hn_sem_post(event_full)
  /\ fullPosts' = fullPosts + 1
  /\ cbCount' = cbCount + 1
  /\ cbpc' = "empty_wait"
  /\ UNCHANGED <<pc, ruby_event, ret, data, event_queue, script, drained, gvl>>
  /\ UNCHANGED <<event_empty, fullWaits, emptyPosts, emptyWaits>>
  /\ UNCHANGED <<histVars, cbLimit>>

\* -------------------------------------------------------------- consumer
ConsumerAcquire ==
  /\ "consumer" \notin gvl
  /\ gvl_free
  /\ gvl' = gvl_acquire("consumer")
  /\ UNCHANGED <<pc, ruby_event, ret, data, event_queue, script, drained>>
  /\ UNCHANGED <<semVars, histVars, cbpc, cbCount, cbLimit>>

\* the consumer takes the oldest entry out of event_queue
ConsumerDrain ==
  /\ "consumer" \in gvl
  /\ event_queue /= <<>>
  /\ drained' = Append(drained, Head(event_queue))
  /\ event_queue' = Tail(event_queue)
  /\ UNCHANGED <<pc, ruby_event, ret, data, script, gvl>>
  /\ UNCHANGED <<semVars, histVars, cbpc, cbCount, cbLimit>>

ConsumerRelease ==
  /\ "consumer" \in gvl
  /\ gvl' = gvl_release("consumer")
  /\ UNCHANGED <<pc, ruby_event, ret, data, event_queue, script, drained>>
  /\ UNCHANGED <<semVars, histVars, cbpc, cbCount, cbLimit>>

\* ------------------------------------------------------- specifications
Producer ==
  \/ ProducerStart \/ WaitRelease \/ WaitSem \/ WaitReacquire
  \/ Dispatch \/ CheckNil \/ Push
  \/ PostRelease \/ PostSem \/ PostReacquire \/ Return

Next ==
  \/ ProducerStart \/ WaitRelease \/ WaitSem \/ WaitReacquire
  \/ Dispatch \/ CheckNil \/ Push
  \/ PostRelease \/ PostSem \/ PostReacquire \/ Return
  \/ CallbackWait \/ CallbackFill \/ CallbackPost
  \/ ConsumerAcquire \/ ConsumerDrain \/ ConsumerRelease

Spec == Init /\ [][Next]_vars


\* the consumer lets go of the lock; a thread waiting for the lock gets it;
\* every other step is taken once it stays possible
Fairness ==
  /\ SF_vars(ProducerStart) /\ SF_vars(WaitReacquire) /\ SF_vars(PostReacquire)
  /\ WF_vars(WaitRelease) /\ WF_vars(WaitSem) /\ WF_vars(Dispatch)
  /\ WF_vars(CheckNil) /\ WF_vars(Push) /\ WF_vars(PostRelease)
  /\ WF_vars(PostSem) /\ WF_vars(Return)
  /\ WF_vars(CallbackWait) /\ WF_vars(CallbackFill) /\ WF_vars(CallbackPost)
  /\ WF_vars(ConsumerRelease)

FairSpec == Init /\ [][Next]_vars /\ Fairness

\* ---------------------------------------------------------------- claims
\* everything event_producer has appended: removed entries, then the rest
Appended == drained \o event_queue
ProducerHoldsLock == "producer" \in gvl

\* C1 (as stated): when event_producer has returned, event_queue holds
\* exactly the N non-nil handler results, in order.
C1_SinkHoldsAll == pc = "done" => event_queue = script

\* C1 (amended): when event_producer has returned, the values it appended
\* to event_queue (those the consumer already removed, followed by those
\* still queued) are exactly the N non-nil handler results, each once, in
\* the order the handler produced them; the handler was invoked N+1 times.
C1_AppendedInOrder ==
  pc = "done" => /\ Appended = script
                 /\ produced = Append(script, Qnil)

C1_Witness ==
  /\ pc = "done"
  /\ script = <<"A", "B">>
  /\ drained = <<"A">>
  /\ event_queue = <<"B">>

\* C2: the handler is never dispatched more often than event_full has been
\* posted: every dispatch follows one completed event_full.wait(), and
\* every completed wait has consumed one earlier post.
C2_DispatchBoundedByPosts ==
  /\ dispatches <= fullPosts
  /\ dispatches = fullWaits - (IF pc \in {"full_woken", "dispatch"} THEN 1 ELSE 0)
  /\ fullWaits <= fullPosts

C2_Witness == dispatches = 2 /\ fullPosts = 2 /\ pc = "check"

\* C3: the producer does not hold the lock while it is inside
\* event_full.wait(), and holds it whenever it invokes the handler or
\* appends to event_queue.
C3_LockAroundWait ==
  /\ pc \in {"full_wait", "full_woken"} => ~ProducerHoldsLock
  /\ pc \in {"dispatch", "check", "push"} => ProducerHoldsLock

C3_Witness ==
  /\ pc = "full_wait"
  /\ event_full = 0
  /\ gvl = {"consumer"}
  /\ dispatches = 1

TerminalSeen == (pc = "check" /\ ruby_event = Qnil) \/ pc \in {"return", "done"}

C5_TerminalExits ==
  /\ [][TerminalSeen => /\ TerminalSeen'
                        /\ pc' \in {pc, "return", "done"}
                        /\ emptyPosts' = emptyPosts
                        /\ event_empty' <= event_empty
                        /\ dispatches' = dispatches
                        /\ Appended' = Appended]_vars
  /\ []((TerminalSeen /\ dispatches = 1) => (emptyPosts = 0 /\ Appended = <<>>))

C5_Witness ==
  /\ pc = "done"
  /\ dispatches = 1
  /\ emptyPosts = 0
  /\ cbpc = "empty_wait"
  /\ cbCount < cbLimit

\* C6: the producer posts event_empty only after it has appended the
\* cycle's result, so the callback side never fills in event N+1 before
\* the result of event N is in event_queue.
C6_PostAfterAppend ==
  /\ emptyPosts <= Len(Appended)
  /\ pc = "empty_post" => Len(Appended) = emptyPosts + 1
  /\ cbpc \in {"fill", "full_post"} => Len(Appended) = cbCount
  /\ data > 0 => Len(Appended) >= data - 1

C6_Witness ==
  /\ cbpc = "fill"
  /\ cbCount = 1
  /\ Appended = <<"B">>

\* C7: the producer and the consumer never hold the lock at the same time.
C7_MutualExclusion == ~("producer" \in gvl /\ "consumer" \in gvl)

C7_Witness ==
  /\ pc = "push"
  /\ gvl = {"producer"}
  /\ drained /= <<>>

\* C8: under fair scheduling every event the callback side has posted is
\* eventually dispatched, and when the callback side delivers the event
\* for which the handler returns nil the producer eventually returns
\* Qtrue.
C8_Liveness ==
  /\ \A n \in 1..(MaxCallbacks + 1) : (fullPosts >= n) ~> (dispatches >= n)
  /\ (cbLimit > Len(script)) ~> (pc = "done" /\ ret = Qtrue)

C8_Witness ==
  /\ pc = "done"
  /\ ret = Qtrue
  /\ dispatches = 3
  /\ fullPosts = 3

\* C9: the producer leaves the loop only right after a dispatch whose
\* result was nil, and a producer blocked in event_full.wait() stays there
\* as long as event_full is not posted.
C9_OnlyTerminalExit ==
  /\ [][(pc' = "return" /\ pc /= "return")
          => (pc = "check" /\ ruby_event = Qnil
              /\ produced /= <<>> /\ produced[Len(produced)] = Qnil)]_vars
  /\ [][(pc' = "done" /\ pc /= "done") => pc = "return"]_vars
  /\ [][(pc = "full_wait" /\ event_full = 0) => pc' = "full_wait"]_vars
  /\ [](ret = Qtrue <=> pc = "done")

C9_Witness ==
  /\ pc = "full_wait"
  /\ event_full = 0
  /\ cbCount = cbLimit
  /\ cbpc = "empty_wait"
  /\ dispatches = 2

\* C10: the count of each semaphore is never negative, completed waits
\* never exceed the initial count (0 for event_full, 1 for event_empty)
\* plus the posts, and every post is either still counted or was consumed
\* by exactly one wait.
C10_SemaphoreAccounting ==
  /\ event_full >= 0
  /\ event_empty >= 0
  /\ fullWaits <= 0 + fullPosts
  /\ emptyWaits <= 1 + emptyPosts
  /\ event_full = 0 + fullPosts - fullWaits
  /\ event_empty = 1 + emptyPosts - emptyWaits

C10_Witness ==
  /\ emptyWaits = 2
  /\ emptyPosts = 1
  /\ fullWaits = 2
  /\ fullPosts = 2

\* the states of the producer loop
ProducerState ==
  CASE pc = "start" -> "Created"
    [] pc \in {"loop", "full_wait", "full_woken"} -> "WaitingForEvent"
    [] pc \in {"dispatch", "check"} -> "Dispatching"
    [] pc \in {"push", "post", "empty_post", "empty_posted"} -> "Forwarding"
    [] OTHER -> "Terminating"

\* number of non-nil entries of a sequence of handler results
RECURSIVE NonNil(_)
NonNil(s) ==
  IF s = <<>> THEN 0
  ELSE (IF Head(s) = Qnil THEN 0 ELSE 1) + NonNil(Tail(s))

\* C11: the producer loop only moves WaitingForEvent -> Dispatching ->
\* (Forwarding | Terminating) and Forwarding -> WaitingForEvent; it
\* dispatches only after a completed wait, appends only after a non-nil
\* dispatch, and waits again only after having posted event_empty.
C11_LoopTransitions ==
  /\ [][ProducerState' /= ProducerState =>
          <<ProducerState, ProducerState'>> \in
            {<<"Created", "WaitingForEvent">>,
             <<"WaitingForEvent", "Dispatching">>,
             <<"Dispatching", "Forwarding">>,
             <<"Dispatching", "Terminating">>,
             <<"Forwarding", "WaitingForEvent">>}]_vars
  /\ [][dispatches' /= dispatches =>
          (dispatches' = dispatches + 1 /\ fullWaits = dispatches + 1)]_vars
  /\ [][Len(Appended') /= Len(Appended) =>
          /\ ruby_event /= Qnil
          /\ Appended' = Append(Appended, ruby_event)
          /\ produced[Len(produced)] = ruby_event
          /\ Len(Appended') = NonNil(produced)]_vars
  /\ [][(ProducerState = "Forwarding" /\ ProducerState' = "WaitingForEvent")
          => (pc = "empty_posted" /\ emptyPosts' = Len(Appended'))]_vars

C11_Witness ==
  /\ pc = "loop"
  /\ dispatches = 2
  /\ emptyPosts = 2
  /\ Appended = <<"A", "B">>

\* C12: whenever the producer is at the head of its loop, the number of
\* event_empty posts equals the number of appends equals the number of
\* non-nil handler results so far.
C12_OnePostPerEvent ==
  pc \in {"loop", "full_wait"} =>
    /\ emptyPosts = Len(Appended)
    /\ Len(Appended) = NonNil(produced)
    /\ NonNil(produced) = dispatches

C12_Witness ==
  /\ pc = "loop"
  /\ emptyPosts = 1
  /\ produced = <<"B">>
  /\ drained = <<"B">>

\* C13: a producer step changes event_queue only by appending at the
\* tail; the entries already there keep their value and order, and every
\* producer step other than the push leaves event_queue as it is.
C13_AppendOnly ==
  [][Producer =>
       /\ drained' = drained
       /\ IF pc = "push"
          THEN /\ Len(event_queue') = Len(event_queue) + 1
               /\ SubSeq(event_queue', 1, Len(event_queue)) = event_queue
               /\ event_queue'[Len(event_queue')] = ruby_event
          ELSE event_queue' = event_queue]_vars

C13_Witness ==
  /\ pc = "post"
  /\ event_queue = <<"A", "B">>

\* C14: event_full and event_empty are each 0 or 1 and never both 1: one
\* permission token circulates between the producer and the callback side.
C14_SingleToken ==
  /\ event_full \in {0, 1}
  /\ event_empty \in {0, 1}
  /\ event_full + event_empty <= 1

C14_Witness ==
  /\ event_full = 1
  /\ event_empty = 0
  /\ pc = "full_wait"
  /\ emptyPosts = 1

\* C15: the callback side filling the event data and the producer reading
\* it are never active together: the callback is between event_empty.wait
\* and event_full.post only while the producer is outside the stretch from
\* its event_full.wait to its event_empty.post (or its exit).
CallbackFilling == cbpc \in {"fill", "full_post"}
ProducerReading ==
  pc \in {"full_woken", "dispatch", "check", "push", "post", "empty_post",
          "return"}

C15_FillReadExclusive ==
  /\ ~(CallbackFilling /\ ProducerReading)
  /\ pc = "dispatch" => data = dispatches + 1

C15_Witness ==
  /\ pc = "dispatch"
  /\ data = 2
  /\ cbpc = "empty_wait"
  /\ cbCount < cbLimit

\* C16: once the producer has exited, event_full and event_empty are 0 and
\* stay 0, the callback side stays blocked in event_empty.wait, and
\* nothing more is appended to event_queue.
C16_AfterExit ==
  /\ [](pc = "done" => /\ event_full = 0
                       /\ event_empty = 0
                       /\ cbpc = "empty_wait")
  /\ [][pc = "done" => /\ pc' = "done"
                       /\ event_full' = 0
                       /\ event_empty' = 0
                       /\ cbpc' = cbpc
                       /\ cbCount' = cbCount
                       /\ Appended' = Appended]_vars

C16_Witness ==
  /\ pc = "done"
  /\ cbCount < cbLimit
  /\ cbpc = "empty_wait"
  /\ Appended = <<"A", "B">>
  /\ drained = <<"A", "B">>

====
